---- MODULE Spec2Model ----
(***************************************************************************)
(* Model of bot.py: a Telegram bot that forwards questions to a completion *)
(* API, logs answered questions in the chat_history table and serves       *)
(* /start, /progress and /history.                                         *)
(*                                                                         *)
(* Texts are tuples of one-character strings, so that strip(), lower() and *)
(* the substring test of the mention detection are computed as bot.py      *)
(* computes them.  Updates are processed one at a time, the default of the *)
(* Application built at the bottom of bot.py; a handler is a sequence of   *)
(* steps, one per externally visible effect.                               *)
(***************************************************************************)
EXTENDS Integers, Sequences, FiniteSets, TLC

VARIABLES
    chat_history,   \* rows of the chat_history table, in insertion order
    user_data,      \* context.user_data[user]["group_question"], <<>> if absent
    clock,          \* datetime.datetime.now()
    tasks,          \* the handler invocations made for the update being processed
    asked,          \* history: the text of the last mention of each user
    prior,          \* history: what the update handled just before did
    update_queue    \* application.update_queue: updates received, not yet handled

vars == <<chat_history, user_data, clock, tasks, asked, prior, update_queue>>

----------------------------------------------------------------------------
(* Bounds of the model *)

MaxLog == 2         \* rows the table can hold: an insert into a full table fails
MaxSeed == 12       \* rows the table is seeded with for /history
TicksPerDay == 2    \* clock units per day
MaxAsked == 2       \* rows the table is seeded with for /progress
MaxQueue == 1       \* updates that wait in the update queue

(* Program constants *)

HistoryLimit == 10  \* LIMIT 10
TopN == 5           \* most_common(5)
MinWordLen == 4     \* [a-z]{4,}
ProgressDays == 7   \* timedelta(days=7)

Users == {"u1", "u2"}
Groups == {"g1", "g2"}
None == <<>>

(* chat.type; the private chat of a user has the user's id *)
ChatType(chat) ==
    IF chat \in Users THEN "private"
    ELSE IF chat = "g1" THEN "group" ELSE "supergroup"

Chats == Users \cup Groups

BOT_USERNAME == <<"r","o","b","o","t","u","t","o","r","_","b","o","t">>
ALIAS == <<"j","o","h","n">>

(* Message texts the users send *)
Texts == {
    <<" ","h","i">>,
    <<" ">>,
    <<"J","o","h","n">>,
    <<"j","o","h","n","?">>,
    <<"/","s","t","a","r","t">>,
    <<"/","p","r","o","g","r","e","s","s">>,
    <<"/","h","i","s","t","o","r","y">> }

(* Group messages: the handle in mixed case, the alias with a capital, the alias *)
(* broken by a space, and a text with neither                                   *)
MentionTexts == {
    <<"@","R","o","b","o","T","u","t","o","r","_","B","o","t"," ","h","i">>,
    <<"J","o","h","n">>,
    <<"J","o","h"," ","n">>,
    <<" ","h","i">> }

(* Answer texts of the completion provider *)
Replies == {"r1"}

----------------------------------------------------------------------------
(* str methods *)

UpperChars == <<"A","B","C","D","E","F","G","H","I","J","K","L","M",
                "N","O","P","Q","R","S","T","U","V","W","X","Y","Z">>
LowerChars == <<"a","b","c","d","e","f","g","h","i","j","k","l","m",
                "n","o","p","q","r","s","t","u","v","w","x","y","z">>
Digits == {"0","1","2","3","4","5","6","7","8","9"}

IsSpace(ch) == ch \in {" ", "\t", "\n", "\r"}

Letters == 1..26
Chars == {UpperChars[i] : i \in Letters} \cup {LowerChars[i] : i \in Letters}
            \cup Digits \cup {" ", "\t", "\n", "\r", "@", "_", "/", "?"}

\* the lower-case form of every character
LOWER == [ch \in Chars |->
            IF \E i \in Letters : UpperChars[i] = ch
            THEN LowerChars[CHOOSE i \in Letters : UpperChars[i] = ch]
            ELSE ch]
LowerChar(ch) == LOWER[ch]

\* str.lower()
LowerText(s) == [i \in 1..Len(s) |-> LowerChar(s[i])]

RECURSIVE LStrip(_)
LStrip(s) == IF s # <<>> /\ IsSpace(Head(s)) THEN LStrip(Tail(s)) ELSE s

RECURSIVE RStrip(_)
RStrip(s) ==
    IF s # <<>> /\ IsSpace(s[Len(s)]) THEN RStrip(SubSeq(s, 1, Len(s) - 1)) ELSE s

\* str.strip()
Strip(s) == RStrip(LStrip(s))

\* sub in s
Contains(s, sub) ==
    \E i \in 0..(Len(s) - Len(sub)) : SubSeq(s, i + 1, i + Len(sub)) = sub

----------------------------------------------------------------------------
(* The chat_history table *)

Row(user_id, timestamp, user_message, bot_reply) ==
    [user_id |-> user_id, timestamp |-> timestamp,
     user_message |-> user_message, bot_reply |-> bot_reply]

\* faulty variant: the newest row of the table is overwritten
InsertRecord_replace_last(log, user_id, timestamp, question, reply) ==
    IF log = <<>> THEN <<Row(user_id, timestamp, question, reply)>>
    ELSE [log EXCEPT ![Len(log)] = Row(user_id, timestamp, question, reply)]

\* INSERT INTO chat_history ... ; conn.commit()
InsertRecord(log, user_id, timestamp, question, reply) ==
    Append(log, Row(user_id, timestamp, question, reply))

\* WHERE user_id = ?
RowsOf(log, user_id) == SelectSeq(log, LAMBDA r : r.user_id = user_id)

\* ORDER BY timestamp DESC (rows of equal timestamp in rowid order)
RECURSIVE OrderByTimestampDesc(_)
OrderByTimestampDesc(rows) ==
    IF rows = <<>> THEN <<>>
    ELSE LET i == CHOOSE k \in 1..Len(rows) :
                    /\ \A j \in 1..Len(rows) : rows[j].timestamp <= rows[k].timestamp
                    /\ \A j \in 1..(k - 1) : rows[j].timestamp < rows[k].timestamp
             rest == SubSeq(rows, 1, i - 1) \o SubSeq(rows, i + 1, Len(rows))
         IN  <<rows[i]>> \o OrderByTimestampDesc(rest)

\* LIMIT n
Limit(rows, n) == SubSeq(rows, 1, IF Len(rows) < n THEN Len(rows) ELSE n)

\* SELECT ... WHERE user_id = ? ORDER BY timestamp DESC LIMIT 10
query_recent(log, user_id) ==
    Limit(OrderByTimestampDesc(RowsOf(log, user_id)), HistoryLimit)

\* reversed(rows)
Reversed(rows) == [i \in 1..Len(rows) |-> rows[Len(rows) + 1 - i]]

\* now - timedelta(days=7)
seven_days_ago(now) == now - ProgressDays * TicksPerDay

\* SELECT user_message ... WHERE user_id = ? AND timestamp > ?
query_since(log, user_id, since) ==
    LET rows == SelectSeq(log, LAMBDA r : r.user_id = user_id /\ r.timestamp > since)
    IN  [i \in 1..Len(rows) |-> rows[i].user_message]

\* t.split('T')[1][:5]: the time of day of a timestamp
hhmm(t) == t % TicksPerDay

----------------------------------------------------------------------------
(* /progress: re.findall(r'\b[a-z]{4,}\b', msg) and Counter.most_common *)

IsLowerLetter(ch) == \E i \in 1..26 : LowerChars[i] = ch
\* \w
IsWordChar(ch) ==
    \/ IsLowerLetter(ch)
    \/ \E i \in 1..26 : UpperChars[i] = ch
    \/ ch \in Digits
    \/ ch = "_"

\* maximal runs of \w characters, left to right
RECURSIVE WordRuns(_, _, _)
WordRuns(s, cur, acc) ==
    LET flushed == IF cur = <<>> THEN acc ELSE Append(acc, cur)
    IN  IF s = <<>> THEN flushed
        ELSE IF IsWordChar(Head(s)) THEN WordRuns(Tail(s), Append(cur, Head(s)), acc)
        ELSE WordRuns(Tail(s), <<>>, flushed)

\* a match lies between two word boundaries and holds only [a-z], 4 or more
findall(msg) ==
    SelectSeq(WordRuns(msg, <<>>, <<>>),
              LAMBDA w : Len(w) >= MinWordLen /\ \A i \in 1..Len(w) : IsLowerLetter(w[i]))

\* topic_keywords: the words of row[0].lower() of every row, in row order
RECURSIVE topic_keywords(_)
topic_keywords(msgs) ==
    IF msgs = <<>> THEN <<>>
    ELSE findall(LowerText(Head(msgs))) \o topic_keywords(Tail(msgs))

Count(w, words) == Cardinality({i \in 1..Len(words) : words[i] = w})

\* the keys of a Counter, in order of first insertion
RECURSIVE Distinct(_, _)
Distinct(words, acc) ==
    IF words = <<>> THEN acc
    ELSE Distinct(Tail(words),
                  IF \E i \in 1..Len(acc) : acc[i] = Head(words) THEN acc
                  ELSE Append(acc, Head(words)))

\* faulty variant: among equal counts the key inserted last comes first
RECURSIVE SortByCount_last_first(_, _)
SortByCount_last_first(keys, words) ==
    IF keys = <<>> THEN <<>>
    ELSE LET i == CHOOSE k \in 1..Len(keys) :
                    /\ \A j \in 1..Len(keys) : Count(keys[j], words) <= Count(keys[k], words)
                    /\ \A j \in (k + 1)..Len(keys) : Count(keys[j], words) < Count(keys[k], words)
             rest == SubSeq(keys, 1, i - 1) \o SubSeq(keys, i + 1, Len(keys))
         IN  <<keys[i]>> \o SortByCount_last_first(rest, words)

\* sorted(items, key=count, reverse=True): stable, so ties keep insertion order
RECURSIVE SortByCount(_, _)
SortByCount(keys, words) ==
    IF keys = <<>> THEN <<>>
    ELSE LET i == CHOOSE k \in 1..Len(keys) :
                    /\ \A j \in 1..Len(keys) : Count(keys[j], words) <= Count(keys[k], words)
                    /\ \A j \in 1..(k - 1) : Count(keys[j], words) < Count(keys[k], words)
             rest == SubSeq(keys, 1, i - 1) \o SubSeq(keys, i + 1, Len(keys))
         IN  <<keys[i]>> \o SortByCount(rest, words)

\* Counter(words).most_common(n): (word, count) pairs
most_common(words, n) ==
    LET ranked == Limit(SortByCount(Distinct(words, <<>>), words), n)
    IN  [i \in 1..Len(ranked) |-> <<ranked[i], Count(ranked[i], words)>>]

UpperChar(ch) ==
    IF IsLowerLetter(ch) THEN UpperChars[CHOOSE i \in 1..26 : LowerChars[i] = ch] ELSE ch

\* word.title() of a lower-case alphabetic word
Title(w) == [i \in 1..Len(w) |-> IF i = 1 THEN UpperChar(w[i]) ELSE w[i]]

\* faulty variant: the plural form whatever the count
ProgressLine_always_plural(word, count) == <<Title(word), count, "questions">>

\* one line of the report: "* Word - count question(s)"
ProgressLine(word, count) ==
    <<Title(word), count, IF count > 1 THEN "questions" ELSE "question">>

----------------------------------------------------------------------------
(* Dispatch: the handlers registered on the Application, in order *)

CommandHandler(command, callback) ==
    [group |-> 0, kind |-> "command", command |-> command,
     chat_types |-> {}, callback |-> callback]
CallbackQueryHandler(callback) ==
    [group |-> 0, kind |-> "callback_query", command |-> <<>>,
     chat_types |-> {}, callback |-> callback]
\* MessageHandler(filters.TEXT & filters.ChatType.X, callback)
MessageHandler(chat_types, callback) ==
    [group |-> 0, kind |-> "text", command |-> <<>>,
     chat_types |-> chat_types, callback |-> callback]

GROUPS == {"group", "supergroup"}
PRIVATE == {"private"}

\* faulty variant: the text handlers are registered before the command handlers
handlers_text_first == <<
    MessageHandler(GROUPS, "handle_group_mention"),
    MessageHandler(PRIVATE, "handle_private_question"),
    CommandHandler(<<"s","t","a","r","t">>, "start"),
    CommandHandler(<<"p","r","o","g","r","e","s","s">>, "show_progress"),
    CommandHandler(<<"h","i","s","t","o","r","y">>, "show_history"),
    CallbackQueryHandler("answer_destination_callback") >>

handlers == <<
    CommandHandler(<<"s","t","a","r","t">>, "start"),
    CommandHandler(<<"p","r","o","g","r","e","s","s">>, "show_progress"),
    CommandHandler(<<"h","i","s","t","o","r","y">>, "show_history"),
    CallbackQueryHandler("answer_destination_callback"),
    MessageHandler(GROUPS, "handle_group_mention"),
    MessageHandler(PRIVATE, "handle_private_question") >>

\* the text up to the first white space
RECURSIVE FirstToken(_)
FirstToken(s) ==
    IF s = <<>> \/ IsSpace(Head(s)) THEN <<>> ELSE <<Head(s)>> \o FirstToken(Tail(s))

\* the message starts with /command or /command@bot
IsCommand(text, command) ==
    LowerText(FirstToken(text)) \in
        { <<"/">> \o command, <<"/">> \o command \o <<"@">> \o BOT_USERNAME }

\* handler.check_update(update)
check_update(h, u) ==
    IF h.kind = "command" THEN u.kind = "message" /\ IsCommand(u.text, h.command)
    ELSE IF h.kind = "callback_query" THEN u.kind = "callback_query"
    ELSE u.kind = "message" /\ u.text # <<>> /\ ChatType(u.chat) \in h.chat_types

\* in every handler group the first handler whose check passes, groups in order
RECURSIVE InOrder(_)
InOrder(S) ==
    IF S = {} THEN <<>>
    ELSE LET i == CHOOSE k \in S : \A j \in S :
                    \/ handlers[k].group < handlers[j].group
                    \/ handlers[k].group = handlers[j].group /\ k <= j
         IN  <<handlers[i].callback>> \o InOrder(S \ {i})

Dispatch(u) ==
    InOrder({ i \in 1..Len(handlers) :
                /\ check_update(handlers[i], u)
                /\ \A j \in 1..(i - 1) :
                      handlers[j].group = handlers[i].group => ~check_update(handlers[j], u) })

----------------------------------------------------------------------------
(* Handler invocations *)

\* a message sent to a chat; row is history: the timestamp of the row it shows
Msg(to, kind, body) == [to |-> to, kind |-> kind, body |-> body, row |-> -1]

NoMention == <<>>
NoPrior == [kind |-> "", user |-> "", chat |-> ""]

NewTask(callback, u) ==
    [handler |-> callback, update |-> u, pc |-> "begin",
     user |-> u.user,       \* update.effective_user / query.from_user
     chat |-> u.chat,       \* the chat of update.message / query.message
     question |-> None,     \* the local variable question
     reply |-> "",          \* the local variable reply
     out |-> <<>>,          \* messages this invocation has sent
     rec |-> <<>>,          \* rowids of the rows this invocation has inserted
     calls |-> 0,           \* completion requests this invocation has posted
     origin |->             \* history, of a button press: the update before was a
        IF /\ u.kind = "callback_query"        \* mention of the same user, in this chat
           /\ prior.kind = "captured" /\ prior.user = u.user
        THEN prior.chat ELSE "",
     before |-> chat_history,           \* history: the table when the update arrived
     had |-> user_data[u.user],         \* history: the user's question at that time
     again |->              \* history, of a button press: the update before was a
                            \* button press of the same user that was answered
        u.kind = "callback_query" /\ prior.kind = "answered" /\ prior.user = u.user,
     foreign |->            \* history, of a button press: the update before was a
                            \* mention of another user, in this chat
        /\ u.kind = "callback_query"
        /\ prior.kind = "captured" /\ prior.user # u.user /\ prior.chat = u.chat]

Idle == tasks = <<>>
Returned == tasks # <<>> /\ \A i \in 1..Len(tasks) : tasks[i].pc = "done"
Active == CHOOSE i \in 1..Len(tasks) :
              tasks[i].pc # "done" /\ \A j \in 1..(i - 1) : tasks[j].pc = "done"
Cur == tasks[Active]
Running(handler, pc) == ~Idle /\ ~Returned /\ Cur.handler = handler /\ Cur.pc = pc

Say(t, kind, to, body) == [t EXCEPT !.out = Append(@, Msg(to, kind, body))]
Goto(t, pc) == [t EXCEPT !.pc = pc]
Upd(t) == tasks' = [tasks EXCEPT ![Active] = t]

Init ==
    /\ chat_history = <<>>
    /\ user_data = [u \in Users |-> None]
    /\ clock = 0
    /\ tasks = <<>>
    /\ asked = [u \in Users |-> NoMention]
    /\ prior = NoPrior
    /\ update_queue = <<>>

\* the updates the users can send
Updates ==
    [kind : {"message"}, user : Users, chat : Chats, text : Texts \cup MentionTexts,
     data : {""}]
    \cup [kind : {"callback_query"}, user : Users, chat : Groups, text : {<<>>},
          data : {"group", "dm"}]

\* the callbacks the dispatcher runs for each update (@@ gives the explicit table)
routes == [u \in Updates |-> Dispatch(u)] @@ <<>>

\* the next update is taken when the handlers of the one before have returned
Accept(u) ==
    /\ Idle
    /\ tasks' = [i \in 1..Len(routes[u]) |-> NewTask(routes[u][i], u)]
    /\ prior' = NoPrior
    /\ UNCHANGED <<chat_history, user_data, clock, asked, update_queue>>

\* a text message (a command is a text message) in the user's private chat or a group
ReceiveMessage ==
    \E user \in Users, text \in Texts :
        \E chat \in {user} \cup Groups :
            Accept([kind |-> "message", user |-> user, chat |-> chat,
                    text |-> text, data |-> ""])

\* a press of one of the two buttons of a prompt message in a group, by any user
\* (prompt messages outlive the process, user_data does not)
ReceiveCallback ==
    \E user \in Users, chat \in Groups, data \in {"group", "dm"} :
        Accept([kind |-> "callback_query", user |-> user, chat |-> chat,
                text |-> <<>>, data |-> data])

----------------------------------------------------------------------------
(* /start, /progress, /history *)

start ==
    /\ Running("start", "begin")
    /\ Upd(Goto(Say(Cur, "greeting", Cur.chat, <<>>), "done"))
    /\ UNCHANGED <<chat_history, user_data, clock, asked, prior, update_queue>>

\* the message show_progress replies with
progress_report(log, user_id, now) ==
    LET rows == query_since(log, user_id, seven_days_ago(now))
        common == most_common(topic_keywords(rows), TopN)
    IN  IF rows = <<>> THEN [kind |-> "no_progress", body |-> <<>>]
        ELSE IF common = <<>> THEN [kind |-> "no_topics", body |-> <<>>]
        ELSE [kind |-> "progress",
              body |-> [i \in 1..Len(common) |-> ProgressLine(common[i][1], common[i][2])]]

show_progress ==
    /\ Running("show_progress", "begin")
    /\ LET r == progress_report(chat_history, Cur.user, clock)
       IN  Upd(Goto(Say(Cur, r.kind, Cur.chat, r.body), "done"))
    /\ UNCHANGED <<chat_history, user_data, clock, asked, prior, update_queue>>

\* faulty variant: the rows are shown in retrieval order
history_rows_newest_first(log, user_id) == query_recent(log, user_id)

\* the rows show_history replies with, one message each, in this order
history_rows(log, user_id) == Reversed(query_recent(log, user_id))

show_history ==
    /\ Running("show_history", "begin")
    /\ LET rows == history_rows(chat_history, Cur.user)
           shown == [i \in 1..Len(rows) |->
                        [Msg(Cur.chat, "history",
                             <<hhmm(rows[i].timestamp), rows[i].user_message,
                               rows[i].bot_reply>>)
                         EXCEPT !.row = rows[i].timestamp]]
       IN  IF rows = <<>>
           THEN Upd(Goto(Say(Cur, "no_history", Cur.chat, <<>>), "done"))
           ELSE Upd(Goto([Cur EXCEPT !.out = @ \o shown], "done"))
    /\ UNCHANGED <<chat_history, user_data, clock, asked, prior, update_queue>>

----------------------------------------------------------------------------
(* The completion call and the insert, the same code in both flows *)

\* faulty variant: the insert is reached whether or not the call succeeded
after_completion_always_save(ok) == "save"

\* where control goes after client.post and result["choices"][0]["message"]["content"]
after_completion(ok) == IF ok THEN "save" ELSE "except"

\* try: response = await client.post(...); reply = result[...]
\* a timeout, a transport error or a body of another shape raises
post_completion(handler) ==
    /\ Running(handler, "post")
    /\ \E ok \in BOOLEAN, r \in Replies :
          Upd([Cur EXCEPT !.calls = @ + 1,
                          !.reply = IF ok THEN r ELSE "",
                          !.pc = after_completion(ok)])
    /\ UNCHANGED <<chat_history, user_data, clock, asked, prior, update_queue>>

\* c.execute(INSERT ...); conn.commit(): sqlite3 may raise
save_record(handler) ==
    /\ Running(handler, "save")
    /\ \E stored \in BOOLEAN :
          IF stored /\ Len(chat_history) < MaxLog
          THEN /\ chat_history' =
                     InsertRecord(chat_history, Cur.user, clock, Cur.question, Cur.reply)
               /\ clock' = clock + 1
               /\ Upd([Cur EXCEPT !.pc = "send",
                          !.rec = Append(@, Len(chat_history) + 1)])
          ELSE /\ Upd(Goto(Cur, "except"))
               /\ UNCHANGED <<chat_history, clock>>
    /\ UNCHANGED <<user_data, asked, prior, update_queue>>

----------------------------------------------------------------------------
(* handle_private_question *)

\* faulty variant: the white space is kept
private_question_unstripped(text) == text

\* faulty variant: the question is lower-cased as well, as the mention test does
private_question_lowered(text) == LowerText(Strip(text))

\* question = update.message.text.strip()
private_question(text) == Strip(text)

handle_private_question ==
    /\ Running("handle_private_question", "begin")
    /\ LET question == private_question(Cur.update.text)
       IN  IF ChatType(Cur.chat) # "private" THEN Upd(Goto(Cur, "done"))
           ELSE IF question = <<>>
           THEN Upd(Goto(Say(Cur, "invalid", Cur.chat, <<>>), "done"))
           ELSE Upd(Goto(Say([Cur EXCEPT !.question = question],
                             "thinking", Cur.chat, <<>>), "post"))
    /\ UNCHANGED <<chat_history, user_data, clock, asked, prior, update_queue>>

private_post == post_completion("handle_private_question")

private_save == save_record("handle_private_question")

\* await update.message.reply_text(f"Answer: {reply}")
private_send ==
    /\ Running("handle_private_question", "send")
    /\ Upd(Goto(Say(Cur, "answer", Cur.chat, <<Cur.reply>>), "done"))
    /\ UNCHANGED <<chat_history, user_data, clock, asked, prior, update_queue>>

\* except Exception: reply_text("Error fetching answer.")
private_except ==
    /\ Running("handle_private_question", "except")
    /\ Upd(Goto(Say(Cur, "error", Cur.chat, <<>>), "done"))
    /\ UNCHANGED <<chat_history, user_data, clock, asked, prior, update_queue>>

----------------------------------------------------------------------------
(* handle_group_mention *)

\* faulty variant: the text is searched as it was sent
mentions_bot_case_sensitive(text) == Contains(text, BOT_USERNAME) \/ Contains(text, ALIAS)

\* BOT_USERNAME in text or "john" in text, text lower-cased
mentions_bot(text) ==
    LET lowered == LowerText(text)
    IN  Contains(lowered, BOT_USERNAME) \/ Contains(lowered, ALIAS)

\* faulty variant: a question already pending is kept
StoreGroupQuestion_keep_first(ud, user, text) ==
    IF ud[user] = None THEN [ud EXCEPT ![user] = text] ELSE ud

\* faulty variant: the question is stored for the chat, not for the user
StoreGroupQuestion_all_users(ud, user, text) == [u \in Users |-> text]

\* context.user_data["group_question"] = update.message.text
StoreGroupQuestion(ud, user, text) == [ud EXCEPT ![user] = text]

handle_group_mention ==
    /\ Running("handle_group_mention", "begin")
    /\ IF Cur.update.text = <<>> \/ ~mentions_bot(Cur.update.text)
       THEN /\ Upd(Goto(Cur, "done"))
            /\ UNCHANGED <<user_data, asked>>
       ELSE /\ user_data' = StoreGroupQuestion(user_data, Cur.user, Cur.update.text)
            /\ asked' = [asked EXCEPT ![Cur.user] = Cur.update.text]
            /\ Upd(Goto(Say(Cur, "prompt", Cur.chat, <<Cur.user>>), "done"))
    /\ UNCHANGED <<chat_history, clock, prior, update_queue>>

----------------------------------------------------------------------------
(* answer_destination_callback *)

\* faulty variant: the question of the prompt, whoever presses its button
pending_question_of_any(ud, user) ==
    IF \E u \in Users : ud[u] # None
    THEN ud[CHOOSE u \in Users : ud[u] # None /\ (u = user => \A v \in Users \ {u} : ud[v] = None)]
    ELSE None

\* context.user_data.get("group_question") of the user who pressed
pending_question(ud, user) == ud[user]

\* faulty variant: the check for a missing question is left out
HasQuestion_unchecked(question) == TRUE

\* if not question: the negation
HasQuestion(question) == question # None

answer_destination_callback ==
    /\ Running("answer_destination_callback", "begin")
    /\ LET question == pending_question(user_data, Cur.user)
       IN  IF ~HasQuestion(question)
           THEN Upd(Goto(Say(Cur, "no_question", Cur.chat, <<>>), "done"))
           ELSE Upd([Cur EXCEPT !.question = question, !.pc = "post"])
    /\ UNCHANGED <<chat_history, user_data, clock, asked, prior, update_queue>>

callback_post == post_completion("answer_destination_callback")

callback_save == save_record("answer_destination_callback")

\* query.message.reply_text for "group", else bot.send_message(chat_id=user_id),
\* which raises when the user has no private chat with the bot
callback_send ==
    /\ Running("answer_destination_callback", "send")
    /\ IF Cur.update.data = "group"
       THEN Upd(Goto(Say(Cur, "group_answer", Cur.chat, <<Cur.reply>>), "done"))
       ELSE \E delivered \in BOOLEAN :
               IF delivered
               THEN Upd(Goto(Say(Cur, "dm_answer", Cur.user, <<Cur.reply>>), "done"))
               ELSE Upd(Goto(Cur, "except"))
    /\ UNCHANGED <<chat_history, user_data, clock, asked, prior, update_queue>>

\* except Exception: query.message.reply_text("Error fetching answer.")
callback_except ==
    /\ Running("answer_destination_callback", "except")
    /\ Upd(Goto(Say(Cur, "error", Cur.chat, <<>>), "done"))
    /\ UNCHANGED <<chat_history, user_data, clock, asked, prior, update_queue>>

----------------------------------------------------------------------------
\* the handlers of the update have returned: the dispatcher takes the next update
Return ==
    /\ Returned
    /\ tasks' = <<>>
    /\ prior' =
          LET t == tasks[Len(tasks)]
          IN  IF /\ t.handler = "answer_destination_callback"
                 /\ \E k \in 1..Len(t.out) : t.out[k].kind \in {"group_answer", "dm_answer"}
              THEN [kind |-> "answered", user |-> t.user, chat |-> ""]
              ELSE IF t.handler = "handle_group_mention" /\ t.out # <<>>
              THEN [kind |-> "captured", user |-> t.user, chat |-> t.chat]
              ELSE NoPrior
    /\ UNCHANGED <<chat_history, user_data, clock, asked, update_queue>>

Next ==
    \/ ReceiveMessage
    \/ ReceiveCallback
    \/ start
    \/ show_progress
    \/ show_history
    \/ handle_private_question
    \/ private_post
    \/ private_save
    \/ private_send
    \/ private_except
    \/ handle_group_mention
    \/ answer_destination_callback
    \/ callback_post
    \/ callback_save
    \/ callback_send
    \/ callback_except
    \/ Return

Spec == Init /\ [][Next]_vars

----------------------------------------------------------------------------
(* The /history specification: the table is seeded with rows of both users, *)
(* more than the LIMIT, and /history is asked in the private chat           *)

SeedRecord ==
    /\ Idle
    /\ Len(chat_history) < MaxSeed
    /\ \E user \in Users :
          chat_history' = InsertRecord(chat_history, user, clock, <<"h","i">>, "r1")
    /\ clock' = clock + 1
    /\ UNCHANGED <<user_data, tasks, asked, prior, update_queue>>

ReceiveHistory ==
    \E user \in Users :
        Accept([kind |-> "message", user |-> user, chat |-> user,
                text |-> <<"/","h","i","s","t","o","r","y">>, data |-> ""])

NextHistory ==
    \/ SeedRecord
    \/ ReceiveHistory
    \/ show_history
    \/ Return

SpecHistory == Init /\ [][NextHistory]_vars

----------------------------------------------------------------------------
(* The /progress specification: the table is seeded with answered questions *)
(* of both users while time passes, and /progress is asked                  *)

\* questions the rows hold: a word in upper case that occurs twice, a word that
\* occurs in two questions, runs of letters next to a digit or "_", and six
\* different words
ProgressTexts == {
    <<"B","e","t","a"," ","a","l","f","a"," ","b","e","t","a">>,
    <<"b","e","t","a">>,
    <<"h","i"," ","a","b","c","d","1"," ","_","a","b","c","d">>,
    <<"c","c","c","c"," ","d","d","d","d"," ","e","e","e","e"," ",
      "f","f","f","f"," ","g","g","g","g"," ","b","e","t","a">> }

\* an answered question of earlier: a row is inserted at the current time
SeedQuestion ==
    /\ Idle
    /\ Len(chat_history) < MaxAsked
    /\ \E user \in Users, text \in ProgressTexts :
          chat_history' = InsertRecord(chat_history, user, clock, text, "r1")
    /\ clock' = clock + 1
    /\ UNCHANGED <<user_data, tasks, asked, prior, update_queue>>

\* time passes with no update: one clock unit less than the 7 days
Wait ==
    /\ Idle
    /\ clock < ProgressDays * TicksPerDay
    /\ clock' = clock + ProgressDays * TicksPerDay - 1
    /\ UNCHANGED <<chat_history, user_data, tasks, asked, prior, update_queue>>

ReceiveProgress ==
    \E user \in Users :
        Accept([kind |-> "message", user |-> user, chat |-> user,
                text |-> <<"/","p","r","o","g","r","e","s","s">>, data |-> ""])

NextProgress ==
    \/ SeedQuestion
    \/ Wait
    \/ ReceiveProgress
    \/ show_progress
    \/ Return

SpecProgress == Init /\ [][NextProgress]_vars

----------------------------------------------------------------------------
(* The mention specification: text messages of both users in the groups *)

ReceiveGroupText ==
    \E user \in Users, text \in MentionTexts, chat \in Groups :
        Accept([kind |-> "message", user |-> user, chat |-> chat,
                text |-> text, data |-> ""])

NextMention ==
    \/ ReceiveGroupText
    \/ handle_group_mention
    \/ Return

SpecMention == Init /\ [][NextMention]_vars

----------------------------------------------------------------------------
(* The queue specification: a user sends updates while a handler is suspended; *)
(* they wait in the update queue until the handler has returned, since the     *)
(* Application is built without concurrent_updates                             *)

\* what one user sends: a private question, two mentions and the two buttons
QueueUpdates == {
    [kind |-> "message", user |-> "u1", chat |-> "u1", text |-> <<" ","h","i">>, data |-> ""],
    [kind |-> "message", user |-> "u1", chat |-> "g1", text |-> <<"J","o","h","n">>,
     data |-> ""],
    [kind |-> "message", user |-> "u1", chat |-> "g1", text |-> <<"j","o","h","n","?">>,
     data |-> ""],
    [kind |-> "callback_query", user |-> "u1", chat |-> "g1", text |-> <<>>,
     data |-> "group"],
    [kind |-> "callback_query", user |-> "u1", chat |-> "g1", text |-> <<>>,
     data |-> "dm"] }

\* faulty variant: an update of a user cancels what is in flight for that user
in_flight_after_put_cancelled(ts, u) == SelectSeq(ts, LAMBDA t : t.user # u.user)

\* the handler invocations in flight when an update arrives: nothing cancels them
in_flight_after_put(ts, u) == ts

\* the updater puts an update of the user into the queue, at any time
Put ==
    /\ Len(update_queue) < MaxQueue
    /\ \E u \in QueueUpdates :
          /\ update_queue' = Append(update_queue, u)
          /\ tasks' = in_flight_after_put(tasks, u)
    /\ UNCHANGED <<chat_history, user_data, clock, asked, prior>>

\* update = await update_queue.get(); await process_update(update)
Fetch ==
    /\ Idle
    /\ update_queue # <<>>
    /\ LET u == Head(update_queue)
       IN  tasks' = [i \in 1..Len(routes[u]) |-> NewTask(routes[u][i], u)]
    /\ update_queue' = Tail(update_queue)
    /\ prior' = NoPrior
    /\ UNCHANGED <<chat_history, user_data, clock, asked>>

NextQueue ==
    \/ Put
    \/ Fetch
    \/ handle_private_question
    \/ private_post
    \/ private_save
    \/ private_send
    \/ private_except
    \/ handle_group_mention
    \/ answer_destination_callback
    \/ callback_post
    \/ callback_save
    \/ callback_send
    \/ callback_except
    \/ Return

SpecQueue == Init /\ [][NextQueue]_vars

----------------------------------------------------------------------------
(* Properties *)

Flows == {"handle_private_question", "answer_destination_callback"}
AnswerKinds == {"answer", "group_answer", "dm_answer"}

AllTasks == {tasks[i] : i \in 1..Len(tasks)}
Kinds(t) == [k \in 1..Len(t.out) |-> t.out[k].kind]
\* the invocation has sent the answer text to the user
Delivered(t) == \E k \in 1..Len(t.out) : t.out[k].kind \in AnswerKinds
\* the completion call was made and failed
CompletionFailed(t) == t.calls >= 1 /\ t.reply = ""
\* the completion call returned an answer text
CompletionSucceeded(t) == t.calls >= 1 /\ t.reply \in Replies

\* C1: in both flows a row is inserted only after the completion call has returned
\* an answer text, and when the call fails the table holds the rows it held when
\* the handler started
C1_RecordOnlyAfterCompletion ==
    \A t \in AllTasks :
        t.handler \in Flows =>
            /\ chat_history # t.before => CompletionSucceeded(t) /\ t.calls = 1
            /\ t.rec # <<>> => CompletionSucceeded(t)
            /\ CompletionFailed(t) => chat_history = t.before /\ t.rec = <<>>

\* a button press whose completion call failed, handled with a non-empty table
C1_Witness ==
    \E t \in AllTasks :
        /\ t.handler = "answer_destination_callback"
        /\ t.pc = "done"
        /\ CompletionFailed(t)
        /\ t.before # <<>>
        /\ Kinds(t) = <<"error">>

\* the text the user sent: the private message, or the mention that was captured
OriginalInput(t) ==
    IF t.handler = "handle_private_question" THEN t.update.text ELSE asked[t.user]

\* the table after exactly one row (user_id, user_message, bot_reply) was added
OneRowAdded(t, user_message) ==
    /\ Len(chat_history) = Len(t.before) + 1
    /\ SubSeq(chat_history, 1, Len(t.before)) = t.before
    /\ LET r == chat_history[Len(chat_history)]
       IN  /\ r.user_id = t.user
           /\ r.user_message = user_message
           /\ r.bot_reply = t.reply

C3_Original ==
    \A t \in AllTasks :
        t.handler = "answer_destination_callback" /\ t.again =>
            /\ t.calls = 0
            /\ t.rec = <<>>
            /\ t.pc \in {"begin", "done"}
            /\ t.pc = "done" => Kinds(t) = <<"no_question">>

\* C4: a button press of a user with no captured question replies "no question
\* found" in the chat of the button, makes no completion call, adds no row and
\* leaves the user without a question
C4_IdleCallback ==
    \A t \in AllTasks :
        t.handler = "answer_destination_callback" /\ asked[t.user] = NoMention =>
            /\ t.calls = 0
            /\ t.rec = <<>>
            /\ chat_history = t.before
            /\ user_data[t.user] = None
            /\ t.pc \in {"begin", "done"}
            /\ t.pc = "done" => /\ Kinds(t) = <<"no_question">>
                                /\ t.out[1].to = t.chat

\* such a button press has been handled, while the other user has a question
C4_Witness ==
    \E t \in AllTasks :
        /\ t.handler = "answer_destination_callback"
        /\ asked[t.user] = NoMention
        /\ t.pc = "done"
        /\ \E u \in Users : user_data[u] # None

\* C5 as stated: with tag group the answer is a reply in the chat where the mention
\* was captured, with tag dm a direct message to the user who pressed; either way
\* exactly one row is added.  Stated for the button press that directly follows
\* the user's mention.
C5_Original ==
    \A t \in AllTasks :
        t.handler = "answer_destination_callback" /\ Delivered(t) /\ t.origin # "" =>
            /\ Len(t.out) = 1
            /\ t.update.data = "group" =>
                  t.out[1].kind = "group_answer" /\ t.out[1].to = t.origin
            /\ t.update.data = "dm" =>
                  t.out[1].kind = "dm_answer" /\ t.out[1].to = t.user
            /\ Len(chat_history) = Len(t.before) + 1

\* C6 as stated: when the completion call succeeded and the insert failed, the
\* answer text still reaches the user
C6_Original ==
    \A t \in AllTasks :
        /\ t.handler \in Flows
        /\ t.pc = "done"
        /\ CompletionSucceeded(t)
        /\ t.rec = <<>>
        => \E k \in 1..Len(t.out) :
              t.out[k].kind \in AnswerKinds /\ t.out[k].body = <<t.reply>>

\* C7: a user has one pending question, the text of the user's most recent mention
\* (an earlier one is replaced), and a button press answers that text
C7_LatestMentionOnly ==
    /\ \A u \in Users : user_data[u] = asked[u]
    /\ \A t \in AllTasks :
          /\ t.handler = "handle_group_mention" /\ t.pc = "done" /\ t.out # <<>>
                => user_data[t.user] = t.update.text
          /\ t.handler = "answer_destination_callback" /\ t.calls >= 1
                => t.question = asked[t.user]

\* a mention has replaced a different pending question of the same user
C7_Witness ==
    \E t \in AllTasks :
        /\ t.handler = "handle_group_mention"
        /\ t.pc = "done"
        /\ t.had # None
        /\ t.had # t.update.text
        /\ user_data[t.user] = t.update.text

\* C8: the pending question of a user changes only in the mention handler run for
\* a message of that user
C8_KeyedPerUser ==
    [][\A u \in Users :
          user_data'[u] # user_data[u] =>
              Running("handle_group_mention", "begin") /\ Cur.user = u]_vars

\* a mention was handled while the other user had a different question pending,
\* which is still pending
C8_Witness ==
    \E t \in AllTasks :
        /\ t.handler = "handle_group_mention"
        /\ t.pc = "done"
        /\ t.out # <<>>
        /\ \E u \in Users \ {t.user} :
              user_data[u] # None /\ user_data[u] # user_data[t.user]

\* the handler the routing table of the specification names for an update
ExpectedHandler(u) ==
    IF u.kind = "callback_query" THEN "answer_destination_callback"
    ELSE IF u.text = <<"/","s","t","a","r","t">> THEN "start"
    ELSE IF u.text = <<"/","p","r","o","g","r","e","s","s">> THEN "show_progress"
    ELSE IF u.text = <<"/","h","i","s","t","o","r","y">> THEN "show_history"
    ELSE IF ChatType(u.chat) \in {"group", "supergroup"} THEN "handle_group_mention"
    ELSE "handle_private_question"

\* C9: every update is handled by exactly one handler, the one of the routing table
C9_ExactlyOneHandler ==
    tasks # <<>> =>
        /\ Len(tasks) = 1
        /\ tasks[1].handler = ExpectedHandler(tasks[1].update)

\* a command sent in a supergroup has been handled by its command handler
C9_Witness ==
    \E t \in AllTasks :
        /\ t.update.text = <<"/","h","i","s","t","o","r","y">>
        /\ ChatType(t.chat) = "supergroup"
        /\ t.handler = "show_history"
        /\ t.pc = "done"

\* C10: /history shows the last 10 rows of the user (all of them if fewer), one
\* message per row, oldest first, and no row of another user
C10_HistoryOldestFirst ==
    \A t \in AllTasks :
        t.handler = "show_history" /\ t.pc = "done" =>
            LET mine == RowsOf(chat_history, t.user)
                n == Len(mine)
                k == IF n < HistoryLimit THEN n ELSE HistoryLimit
            IN  IF n = 0 THEN Kinds(t) = <<"no_history">>
                ELSE /\ Len(t.out) = k
                     /\ \A i \in 1..k :
                           /\ t.out[i].kind = "history"
                           /\ t.out[i].row = mine[n - k + i].timestamp
                           /\ t.out[i].body = <<hhmm(mine[n - k + i].timestamp),
                                                mine[n - k + i].user_message,
                                                mine[n - k + i].bot_reply>>

\* /history was answered for a user with more than 10 rows, among rows of another
C10_Witness ==
    \E t \in AllTasks :
        /\ t.handler = "show_history"
        /\ t.pc = "done"
        /\ Len(RowsOf(chat_history, t.user)) > HistoryLimit
        /\ Len(t.out) = HistoryLimit
        /\ \E i \in 1..Len(chat_history) : chat_history[i].user_id # t.user

\* the questions of the user's rows of the last 7 days, in the order of the table
RecentQuestions(user) ==
    LET rows == SelectSeq(chat_history,
                    LAMBDA r : /\ r.user_id = user
                               /\ clock - r.timestamp < ProgressDays * TicksPerDay)
    IN  [i \in 1..Len(rows) |-> LowerText(rows[i].user_message)]

\* positions i..j of the text hold a word of 4 or more letters a-z: letters only,
\* with no letter, digit or "_" right before or right after
WordAt(l, i, j) ==
    /\ j - i + 1 >= MinWordLen
    /\ i = 1 \/ ~IsWordChar(l[i - 1])
    /\ j = Len(l) \/ ~IsWordChar(l[j + 1])
    /\ \A k \in i..j : IsLowerLetter(l[k])

\* the places <<question, first position, last position>> where such words stand
WordPlaces(qs) ==
    UNION { { <<n, e[1], e[2]>> :
                e \in { x \in (1..Len(qs[n])) \X (1..Len(qs[n])) :
                            WordAt(qs[n], x[1], x[2]) } } : n \in 1..Len(qs) }
WordOf(qs, p) == SubSeq(qs[p[1]], p[2], p[3])

\* of every such word: how often it occurs and where it is met first when the
\* questions are scanned in order
Tally(qs) ==
    LET places == WordPlaces(qs)
    IN  [w \in { WordOf(qs, p) : p \in places } |->
            LET at == { p \in places : WordOf(qs, p) = w }
            IN  [count |-> Cardinality(at),
                 first |-> CHOOSE p \in at :
                              \A q \in at : p[1] < q[1] \/ (p[1] = q[1] /\ p[2] <= q[2])]]

\* the /progress invocations that have replied
ProgressDone == { t \in AllTasks : t.handler = "show_progress" /\ t.pc = "done" }

\* C11: /progress replies "no progress" when the user has no row of the last 7
\* days, "couldn't detect topics" when those rows hold no word of 4 or more
\* letters (of the lower-cased question), and else a report of at most 5 different
\* words, each with the number of its occurrences in those rows and "question"
\* for 1, "questions" for more
C11_ProgressReport ==
    \A t \in ProgressDone :
        LET qs == RecentQuestions(t.user)
            tally == Tally(qs)
            words == DOMAIN tally
            lines == t.out[1].body
        IN  /\ Len(t.out) = 1
            /\ qs = <<>> => t.out[1].kind = "no_progress"
            /\ qs # <<>> /\ words = {} => t.out[1].kind = "no_topics"
            /\ qs # <<>> /\ words # {} =>
                  /\ t.out[1].kind = "progress"
                  /\ Len(lines) >= 1 /\ Len(lines) <= TopN
                  /\ \A i, j \in 1..Len(lines) : i # j => lines[i][1] # lines[j][1]
                  /\ \A i \in 1..Len(lines) :
                        \E w \in words :
                            /\ lines[i][1] = Title(w)
                            /\ lines[i][2] = tally[w].count
                            /\ lines[i][2] = 1 => lines[i][3] = "question"
                            /\ lines[i][2] > 1 => lines[i][3] = "questions"

\* a report with a word counted once and a word counted more than once, for a user
\* who also has a row older than 7 days
C11_Witness ==
    \E t \in ProgressDone :
        /\ t.out[1].kind = "progress"
        /\ \E i, j \in 1..Len(t.out[1].body) :
              t.out[1].body[i][2] = 1 /\ t.out[1].body[j][2] > 1
        /\ Len(RecentQuestions(t.user)) < Len(RowsOf(chat_history, t.user))

\* v ranks before w: more occurrences, or as many and met earlier
RanksBefore(tally, v, w) ==
    \/ tally[v].count > tally[w].count
    \/ /\ tally[v].count = tally[w].count
       /\ LET p == tally[v].first
              q == tally[w].first
          IN  p[1] < q[1] \/ (p[1] = q[1] /\ p[2] < q[2])

\* C12: the report lists the 5 most frequent words (all of them if fewer) in
\* non-increasing order of count; among words of equal count the one met first in
\* the retrieved questions comes first, also where the list is cut
C12_ProgressRanking ==
    \A t \in ProgressDone :
        t.out[1].kind = "progress" =>
            LET tally == Tally(RecentQuestions(t.user))
                words == DOMAIN tally
                lines == t.out[1].body
                n == Cardinality(words)
                listed == { w \in words : \E i \in 1..Len(lines) : lines[i][1] = Title(w) }
            IN  /\ Len(lines) = IF n < TopN THEN n ELSE TopN
                /\ Cardinality(listed) = Len(lines)
                /\ \A i, j \in 1..Len(lines) : i < j => lines[i][2] >= lines[j][2]
                /\ \A i, j \in 1..Len(lines) :
                      i < j =>
                        \E v, w \in listed :
                            /\ lines[i][1] = Title(v)
                            /\ lines[j][1] = Title(w)
                            /\ RanksBefore(tally, v, w)
                /\ \A v \in listed, w \in words \ listed : RanksBefore(tally, v, w)

\* a report of 5 of more than 5 words, cut between two words of equal count, whose
\* first word stands last in the question scanned first
C12_Witness ==
    \E t \in ProgressDone :
        /\ t.out[1].kind = "progress"
        /\ LET qs == RecentQuestions(t.user)
               lines == t.out[1].body
           IN  /\ Cardinality(DOMAIN Tally(qs)) > TopN
               /\ Len(lines) = TopN
               /\ lines[1][2] > lines[2][2]
               /\ lines[1][1] = <<"B","e","t","a">>
               /\ lines[TopN][2] = 1
               /\ Len(qs) >= 2

\* C13 as stated: in the private flow "Thinking..." is sent before the completion
\* call, and a question that was acknowledged gets exactly one more message: the
\* answer when the completion call succeeded, the error message when it failed
C13_Original ==
    \A t \in AllTasks :
        t.handler = "handle_private_question" /\ Strip(t.update.text) # <<>> =>
            /\ t.calls >= 1 => t.out # <<>> /\ t.out[1].kind = "thinking"
            /\ t.pc = "done" =>
                  /\ CompletionSucceeded(t) => Kinds(t) = <<"thinking", "answer">>
                  /\ CompletionFailed(t) => Kinds(t) = <<"thinking", "error">>

\* a command handler is running
CommandRunning ==
    ~Idle /\ ~Returned /\ Cur.handler \in {"start", "show_progress", "show_history"}

\* C14: no step removes or changes a row of the table: the table after the step
\* is the table before it, or that table with rows added at the end; a step of
\* start, show_progress or show_history leaves the table and the pending question
\* of every user as they are
C14_AppendOnly ==
    [][/\ Len(chat_history') >= Len(chat_history)
       /\ SubSeq(chat_history', 1, Len(chat_history)) = chat_history
       /\ CommandRunning => chat_history' = chat_history /\ user_data' = user_data]_vars

\* /progress has been handled with rows in the table and questions pending, after
\* a row was added to a table that held a row
C14_Witness ==
    \E t \in AllTasks :
        /\ t.handler = "show_progress"
        /\ t.pc = "done"
        /\ Len(chat_history) >= 2
        /\ \E u \in Users : user_data[u] # None

\* the lower-cased text holds the handle or the alias at some position
HoldsToken(text) ==
    LET l == LowerText(text)
    IN  \E i \in 1..Len(l) : \E j \in i..Len(l) : SubSeq(l, i, j) \in {BOT_USERNAME, ALIAS}

\* C15: a text message in a group makes its text, as sent, the pending question of
\* the sender and is answered with the prompt if and only if the lower-cased text
\* holds the handle or the alias; otherwise there is no reply, no completion call
\* and no row, and the sender's pending question stays as it was
C15_MentionCaptured ==
    \A t \in AllTasks :
        t.handler = "handle_group_mention" =>
            /\ t.calls = 0
            /\ t.rec = <<>>
            /\ chat_history = t.before
            /\ t.pc \in {"begin", "done"}
            /\ t.pc = "begin" => t.out = <<>> /\ user_data[t.user] = t.had
            /\ t.pc = "done" =>
                  IF HoldsToken(t.update.text)
                  THEN /\ Kinds(t) = <<"prompt">>
                       /\ t.out[1].to = t.chat
                       /\ user_data[t.user] = t.update.text
                  ELSE /\ t.out = <<>>
                       /\ user_data[t.user] = t.had

\* a text with neither token was handled for a user whose pending question is a
\* text with the handle in mixed case
C15_Witness ==
    \E t \in AllTasks :
        /\ t.handler = "handle_group_mention"
        /\ t.pc = "done"
        /\ ~HoldsToken(t.update.text)
        /\ user_data[t.user] # None
        /\ user_data[t.user] # LowerText(user_data[t.user])
        /\ Contains(LowerText(user_data[t.user]), BOT_USERNAME)

\* C16: a private message that is empty after strip() gets the "send a valid
\* question" reply and nothing else: no "Thinking...", no completion call, no row,
\* and the pending questions stay as they are
C16_EmptyQuestion ==
    \A t \in AllTasks :
        t.handler = "handle_private_question" /\ Strip(t.update.text) = <<>> =>
            /\ t.calls = 0
            /\ t.rec = <<>>
            /\ chat_history = t.before
            /\ user_data[t.user] = t.had
            /\ t.pc \in {"begin", "done"}
            /\ t.pc = "begin" => t.out = <<>>
            /\ t.pc = "done" => Kinds(t) = <<"invalid">> /\ t.out[1].to = t.chat

\* a message of white space only was handled, with a row in the table and a
\* question of the user pending
C16_Witness ==
    \E t \in AllTasks :
        /\ t.handler = "handle_private_question"
        /\ t.update.text = <<" ">>
        /\ t.pc = "done"
        /\ chat_history # <<>>
        /\ user_data[t.user] # None

IsPrefix(p, q) == Len(p) <= Len(q) /\ SubSeq(q, 1, Len(p)) = p

\* the messages that end an interaction
Terminal(t) == { k \in 1..Len(t.out) : t.out[k].kind \in AnswerKinds \cup {"error"} }

\* C17: nothing cancels a request: while a handler is in flight every step, an
\* update of the same user arriving included, keeps it with the update it handles
\* and the question it has read, and keeps what it has sent and inserted; when it
\* returns it has sent exactly one answer or error message of its own and, if it
\* answered, inserted one row of its own, whose user_message is the question it
\* read when it started (for a button press, the question pending at that time)
C17_NoCancellation ==
    [][/\ ~Idle /\ ~Returned =>
            /\ Len(tasks') = Len(tasks)
            /\ \A i \in 1..Len(tasks) :
                  /\ tasks'[i].handler = tasks[i].handler
                  /\ tasks'[i].update = tasks[i].update
                  /\ tasks[i].question # None => tasks'[i].question = tasks[i].question
                  /\ IsPrefix(tasks[i].out, tasks'[i].out)
                  /\ IsPrefix(tasks[i].rec, tasks'[i].rec)
       /\ Returned' =>
            \A i \in 1..Len(tasks') :
                LET t == tasks'[i]
                IN  t.handler \in Flows /\ t.question # None =>
                        /\ Cardinality(Terminal(t)) = 1
                        /\ t.handler = "answer_destination_callback" => t.question = t.had
                        /\ Delivered(t) =>
                              /\ Len(t.rec) = 1
                              /\ chat_history'[t.rec[1]].user_id = t.user
                              /\ chat_history'[t.rec[1]].user_message = t.question]_vars

\* a button press has inserted its row and is about to answer, while a newer
\* mention of the same user, of another text, waits in the queue
C17_Witness ==
    \E t \in AllTasks :
        /\ t.handler = "answer_destination_callback"
        /\ t.pc = "send"
        /\ t.rec # <<>>
        /\ chat_history[t.rec[1]].user_message = t.question
        /\ update_queue # <<>>
        /\ Head(update_queue).kind = "message"
        /\ Head(update_queue).user = t.user
        /\ Head(update_queue).chat \in Groups
        /\ Head(update_queue).text \in {<<"J","o","h","n">>, <<"j","o","h","n","?">>}
        /\ Head(update_queue).text # t.question

\* C18: a button press answers the pending question of the user who pressed, and
\* the row it adds has that user's id and, as user_message, the text of that
\* user's mention, also when the prompt pressed answers a mention of another user
C18_PresserQuestion ==
    \A t \in AllTasks :
        t.handler = "answer_destination_callback" =>
            /\ t.calls >= 1 => t.question = t.had /\ t.question = asked[t.user]
            /\ Len(t.rec) <= 1
            /\ \A k \in 1..Len(t.rec) :
                  /\ chat_history[t.rec[k]].user_id = t.user
                  /\ chat_history[t.rec[k]].user_message = asked[t.user]
                  /\ asked[t.user] # NoMention

\* a user with a pending question pressed the button of the prompt shown for the
\* mention, of another text, that another user had just sent; a row was added
C18_Witness ==
    \E t \in AllTasks :
        /\ t.handler = "answer_destination_callback"
        /\ t.foreign
        /\ t.rec # <<>>
        /\ \E u \in Users \ {t.user} : asked[u] # NoMention /\ asked[u] # asked[t.user]

\* C19 as stated: an answer is sent only after its row was committed, so every
\* answer delivered has its row in the table; and "Error fetching answer." is sent
\* only when the handler has added no row
C19_Original ==
    \A t \in AllTasks :
        t.handler \in Flows =>
            /\ Delivered(t) =>
                  /\ t.rec # <<>>
                  /\ chat_history[t.rec[1]] =
                        Row(t.user, chat_history[t.rec[1]].timestamp, t.question, t.reply)
            /\ (\E k \in 1..Len(t.out) : t.out[k].kind = "error") => t.rec = <<>>

====
